---- MODULE Spec2Model ----
(***************************************************************************)
(* Model of node-bitcoin-p2p: the TransactionStore memory pool             *)
(* (lib/transactionstore.js) and the Node wiring that feeds it             *)
(* (lib/schema/block.js).                                                  *)
(*                                                                         *)
(* The event loop is single threaded: every handler runs to completion,    *)
(* so each handler is one atomic action.  The only suspension point of the *)
(* store is tx.verify, whose completion callback is a separate action.     *)
(***************************************************************************)
EXTENDS Integers, Sequences, FiniteSets, TLC

(***************************************************************************)
(* Bounds of the exploration.                                              *)
(***************************************************************************)
\* number of caller-supplied callbacks handed to add/get in one run
MaxCb == 2
\* longest waiter queue
MaxQueue == 3
\* longest event log
MaxEvents == 4
\* most entries of an inv message
MaxInv == 3
\* most getblocks requests in one run
MaxLocators == 2
\* most messages handed to connections by the memory pool handlers
MaxSent == 3
\* largest value of one byte of a hash (hashes are two bytes long)
MaxByte == 1
\* most calls of find, and most hashes in the list given to one call
MaxFind == 2
MaxHashes == 2

(***************************************************************************)
(* The transactions of the universe.  P spends an output of the confirmed  *)
(* transaction G, C spends an output of P, D spends the same output of G   *)
(* as P (a double spend of P), CB is a coinbase, NS is non-standard.       *)
(***************************************************************************)
TxHashes == {"P", "C", "D", "CB", "NS"}

\* the transactions callers submit to the pool
Submitted == {"P", "C", "CB", "NS"}

\* the hashes callers look up or remove
Queried == {"P", "C"}

\* the transactions the block chain confirms
Confirmed == {"P", "C", "D", "CB"}

\* every hash that can be a key of an index (G is never submitted)
Hashes == TxHashes \cup {"G"}

NullHash == "NULL"

\* tx.ins[i].outpoint = {hash, index}
Ins(tx) ==
  CASE tx = "P"  -> {<<"G", 0>>}
    [] tx = "C"  -> {<<"P", 0>>}
    [] tx = "D"  -> {<<"G", 0>>}
    [] tx = "CB" -> {<<NullHash, 0>>}
    [] tx = "NS" -> {<<"G", 1>>}

IsCoinBase(tx) == Ins(tx) = {<<NullHash, 0>>}

IsStandard(tx) == tx # "NS"

\* tx.getAffectedAccounts(), in key order
AffectedAccounts(tx) ==
  CASE tx = "P" -> <<"a1">>
    [] tx = "C" -> <<"a1">>
    [] OTHER    -> <<>>

Accounts == {"a1"}

\* the errors a verification can end with, and the synchronous rejections
MissingSourceError == "MissingSourceError"

VerifyErrors == {MissingSourceError, "VerifyError"}

CoinbaseError == "CoinbaseError"

NonStandardError == "NonStandardError"

Nil == "nil"

Undefined == "undefined"

(***************************************************************************)
(* Values of txIndex[hash]: undefined, an Array of callbacks (the          *)
(* transaction is being verified) or the Transaction object.               *)
(***************************************************************************)
NoEntry == [kind |-> "undefined", q |-> <<>>]

QueueEntry(q) == [kind |-> "queue", q |-> q]

TxEntry == [kind |-> "tx", q |-> <<>>]

\* a caller's callback function
Fn(id) == [type |-> "fn", id |-> id]

\* the closure remove() pushes while the transaction is being verified
RemoveClosure == [type |-> "remove", id |-> 0]

\* the second argument forEach passes to add: the array index, not a function
NotFn(i) == [type |-> "number", id |-> i]

\* the callback Node.sendTx hands to add, wrapping the caller's callback id
SendTxClosure(id) == [type |-> "sendTx", id |-> id]

\* "function" == typeof callback
\* the function find hands to get for every hash of call id
FindClosure(id) == [type |-> "find", id |-> id]

IsFunction(cb) == cb.type \in {"fn", "sendTx", "find"}

\* peerManager.getActiveConnections(), in order
ActiveConnections == <<"c1", "c2">>

VARIABLES
  txIndex,         \* this.txIndex
  txIndexByAcc,    \* this.txIndexByAcc
  orphanTxIndex,   \* this.orphanTxIndex (its keys)
  orphanTxByPrev,  \* this.orphanTxByPrev
  liveAccounting,  \* this.node.cfg.feature.liveAccounting
  inflight,        \* number of tx.verify calls whose callback is pending
  events,          \* events emitted by the store, in order
  cbCalls,         \* per caller callback: the (err, tx) it was invoked with
  nextCb,          \* next fresh caller callback
  misfired,        \* "verification callback misfired" was logged
  lateParents,     \* history: hashes submitted while orphans waited on them
  finds,           \* per call of find: its locals and the calls of its callback
  last,            \* the handler that ran last
  state,           \* Node: this.state
  running,         \* Node: this.running
  initCalls,       \* number of calls of blockChain.init()
  enabled,         \* per component: number of calls of its enable()
  stateChanges,    \* the stateChange events the Node emitted, in order
  invMsg,          \* handleInv: e.message.invs of the inv message received
  toCheck,         \* handleInv: toCheck
  unknownInvs,     \* handleInv: unknownInvs
  lookups,         \* handleInv: indices whose storage.knowsBlock is pending
  locators,        \* connections whose getBlockByLocator lookup is pending
  sent,            \* messages handed to connections for sending, in order
  txSender,        \* hashes registered with the rebroadcaster (txSender.add)
  block,           \* the Block under validation
  blockTxs,        \* the txs argument of the last check
  result           \* what the last check returned or threw

\* the variables of the memory pool
poolVars == <<txIndex, txIndexByAcc, orphanTxIndex, orphanTxByPrev, liveAccounting,
              inflight, events, cbCalls, nextCb, misfired, lateParents, finds>>

\* the variables of the Node state machine
nodeVars == <<state, running, initCalls, enabled, stateChanges>>

\* the variables of the inbound message handlers
msgVars == <<invMsg, toCheck, unknownInvs, lookups, locators>>

\* the variables of block validation
blockVars == <<block, blockTxs, result>>

vars == <<poolVars, last, nodeVars, msgVars, sent, txSender, blockVars>>

CbIds == 1..(MaxCb + 1)

\* the store as one value, threaded through the handlers
Store ==
  [txIndex |-> txIndex, txIndexByAcc |-> txIndexByAcc,
   orphanTxIndex |-> orphanTxIndex, orphanTxByPrev |-> orphanTxByPrev,
   inflight |-> inflight, events |-> events, cbCalls |-> cbCalls,
   misfired |-> misfired, thrown |-> FALSE, ret |-> Undefined,
   sent |-> sent, txSender |-> txSender, finds |-> finds]

Emit(s, type, tx) == [s EXCEPT !.events = Append(@, [type |-> type, tx |-> tx])]

\* emit type:<account> for every affected account
RECURSIVE EmitAccounts(_, _, _, _)
EmitAccounts(s, type, tx, accs) ==
  IF accs = <<>> THEN s
  ELSE EmitAccounts([s EXCEPT !.events =
                        Append(@, [type |-> type \o ":" \o Head(accs), tx |-> tx])],
                    type, tx, Tail(accs))

\* Node.prototype.sendInv: conn.sendInv(inv) for every active connection
SendInv(s, inv) ==
  [s EXCEPT !.sent = @ \o [i \in 1..Len(ActiveConnections) |->
                             [conn |-> ActiveConnections[i], msg |-> "inv",
                              data |-> <<inv>>]]]

\* sendTx callback that registers and broadcasts whatever add reported
SendTxCallback_AlwaysBroadcast(s, cb, err, tx) ==
  [SendInv([s EXCEPT !.txSender = @ \cup {tx}], tx)
     EXCEPT !.cbCalls[cb.id] = Append(@, [err |-> err, tx |-> Undefined])]

\* the callback of Node.prototype.sendTx, called by the store with (err, tx)
SendTxCallback(s, cb, err, tx) ==
  LET s1 == IF err = Nil
              THEN SendInv([s EXCEPT !.txSender = @ \cup {tx}], tx)
              ELSE s
  IN  [s1 EXCEPT !.cbCalls[cb.id] = Append(@, [err |-> err, tx |-> Undefined])]

\* the function find hands to get, called with (err, tx)
FindCallback(s, cb, err, tx) ==
  LET f == s.finds[cb.id]
      f1 == IF err # Nil
              THEN [f EXCEPT !.calls = Append(@, [err |-> err, result |-> <<>>]),
                             !.disable = TRUE]
              ELSE f
      f2 == [f1 EXCEPT !.callbacks = @ - 1]
      f3 == IF tx # Undefined THEN [f2 EXCEPT !.result = Append(@, tx)] ELSE f2
      f4 == IF f3.callbacks = 0
              THEN [f3 EXCEPT !.calls = Append(@, [err |-> Nil, result |-> f3.result])]
              ELSE f3
  IN  IF f.disable THEN s ELSE [s EXCEPT !.finds[cb.id] = f4]

\* callback(err, tx): a function is called, anything else raises TypeError
Invoke(s, cb, err, tx) ==
  IF s.thrown THEN s
  ELSE IF cb.type = "fn"
    THEN [s EXCEPT !.cbCalls[cb.id] = Append(@, [err |-> err, tx |-> tx])]
  ELSE IF cb.type = "sendTx"
    THEN SendTxCallback(s, cb, err, tx)
  ELSE IF cb.type = "find"
    THEN FindCallback(s, cb, err, tx)
    ELSE [s EXCEPT !.thrown = TRUE]

\* remove that drops the entry of a transaction that is being verified
RemoveOp_Immediate(s, hash) ==
  IF s.txIndex[hash].kind # "undefined"
    THEN LET s1 == [s EXCEPT !.txIndex[hash] = NoEntry]
             s2 == Emit(s1, "txCancel", hash)
         IN  IF liveAccounting
               THEN EmitAccounts(s2, "txCancel", hash, AffectedAccounts(hash))
               ELSE s2
  ELSE s

(***************************************************************************)
(* TransactionStore.prototype.remove                                       *)
(***************************************************************************)
RemoveOp(s, hash) ==
  IF s.txIndex[hash].kind = "queue"
    THEN [s EXCEPT !.txIndex[hash].q = Append(@, RemoveClosure)]
  ELSE IF s.txIndex[hash].kind = "tx"
    THEN LET s1 == [s EXCEPT !.txIndex[hash] = NoEntry]
             s2 == Emit(s1, "txCancel", hash)
         IN  IF liveAccounting
               THEN EmitAccounts(s2, "txCancel", hash, AffectedAccounts(hash))
               ELSE s2
  ELSE s

\* callbackQueue.forEach(function (cb) { cb(err, tx); })
RECURSIVE Flush(_, _, _, _)
Flush(s, q, err, tx) ==
  IF q = <<>> \/ s.thrown THEN s
  ELSE LET cb == Head(q)
           s1 == IF cb.type = "remove"
                   THEN (IF err # Nil THEN s ELSE RemoveOp(s, tx))
                   ELSE Invoke(s, cb, err, tx)
       IN  Flush(s1, Tail(q), err, tx)

\* add without the "currently being verified" branch
AddOp_NoDedup(s, tx, callback) ==
  IF s.txIndex[tx].kind = "tx"
    THEN [(IF IsFunction(callback) THEN Invoke(s, callback, Nil, tx) ELSE s)
            EXCEPT !.ret = FALSE]
  ELSE IF IsCoinBase(tx)
    THEN [Invoke(s, callback, CoinbaseError, Undefined) EXCEPT !.ret = TRUE]
  ELSE IF ~IsStandard(tx)
    THEN [Invoke(s, callback, NonStandardError, Undefined) EXCEPT !.ret = TRUE]
  ELSE [s EXCEPT !.inflight[tx] = @ + 1,
                 !.txIndex[tx] = QueueEntry(<<callback>>),
                 !.ret = TRUE]

\* add that creates the waiter queue before the coinbase and standard checks
AddOp_QueueBeforeChecks(s, tx, callback) ==
  IF s.txIndex[tx].kind = "queue"
    THEN [s EXCEPT !.txIndex[tx].q = IF IsFunction(callback)
                                       THEN Append(@, callback) ELSE @,
                   !.ret = FALSE]
  ELSE IF s.txIndex[tx].kind = "tx"
    THEN [(IF IsFunction(callback) THEN Invoke(s, callback, Nil, tx) ELSE s)
            EXCEPT !.ret = FALSE]
  ELSE LET s1 == [s EXCEPT !.txIndex[tx] = QueueEntry(<<callback>>), !.ret = TRUE]
       IN  IF IsCoinBase(tx) THEN Invoke(s1, callback, CoinbaseError, Undefined)
           ELSE IF ~IsStandard(tx) THEN Invoke(s1, callback, NonStandardError, Undefined)
           ELSE [s1 EXCEPT !.inflight[tx] = @ + 1]

(***************************************************************************)
(* TransactionStore.prototype.add, up to the call of tx.verify and the     *)
(* creation of the waiter queue.                                           *)
(***************************************************************************)
AddOp(s, tx, callback) ==
  IF s.txIndex[tx].kind = "queue"
    THEN [s EXCEPT !.txIndex[tx].q = IF IsFunction(callback)
                                       THEN Append(@, callback) ELSE @,
                   !.ret = FALSE]
  ELSE IF s.txIndex[tx].kind = "tx"
    THEN [(IF IsFunction(callback) THEN Invoke(s, callback, Nil, tx) ELSE s)
            EXCEPT !.ret = FALSE]
  ELSE IF IsCoinBase(tx)
    THEN [Invoke(s, callback, CoinbaseError, Undefined) EXCEPT !.ret = TRUE]
  ELSE IF ~IsStandard(tx)
    THEN [Invoke(s, callback, NonStandardError, Undefined) EXCEPT !.ret = TRUE]
  ELSE [s EXCEPT !.inflight[tx] = @ + 1,
                 !.txIndex[tx] = QueueEntry(<<callback>>),
                 !.ret = TRUE]

\* this.orphanTxByPrev[txHash].forEach(this.add.bind(this))
RECURSIVE Refeed(_, _, _)
Refeed(s, orphans, i) ==
  IF i > Len(orphans) \/ s.thrown THEN s
  ELSE Refeed(AddOp(s, orphans[i], NotFn(i - 1)), orphans, i + 1)

\* the liveAccounting loop of the verify callback
RECURSIVE IndexAccounts(_, _, _)
IndexAccounts(s, tx, accs) ==
  IF accs = <<>> THEN s
  ELSE LET a == Head(accs)
           s1 == [s EXCEPT !.txIndexByAcc[a] = Append(@, tx)]
           s2 == [s1 EXCEPT !.events = Append(@, [type |-> "txNotify:" \o a, tx |-> tx])]
       IN  IndexAccounts(s2, tx, Tail(accs))

\* error path that keeps the callbacks of an orphan until its parent arrives
VerifyFailed_DeferOrphanCallbacks(s, tx, err, missingTxHash, q) ==
  IF err = MissingSourceError
    THEN [s EXCEPT !.orphanTxIndex = @ \cup {tx},
                   !.orphanTxByPrev[missingTxHash] = Append(@, tx)]
    ELSE Flush([s EXCEPT !.txIndex[tx] = NoEntry], q, err, tx)

\* error path that never deletes the entry
VerifyFailed_KeepEntry(s, tx, err, missingTxHash, q) ==
  LET s1 == IF err = MissingSourceError
              THEN [s EXCEPT !.orphanTxIndex = @ \cup {tx},
                             !.orphanTxByPrev[missingTxHash] = Append(@, tx)]
              ELSE s
  IN  Flush(s1, q, err, tx)

(***************************************************************************)
(* The callback add() hands to tx.verify: the error path.                  *)
(***************************************************************************)
VerifyFailed(s, tx, err, missingTxHash, q) ==
  LET s1 == IF err = MissingSourceError
              THEN [s EXCEPT !.orphanTxIndex = @ \cup {tx},
                             !.orphanTxByPrev[missingTxHash] = Append(@, tx)]
              ELSE [s EXCEPT !.txIndex[tx] = NoEntry]
  IN  Flush(s1, q, err, tx)

\* success path that keeps the list of orphans waiting on tx after the re-feed
VerifySucceeded_KeepOrphanList(s, tx, q) ==
  LET s1 == [s EXCEPT !.txIndex[tx] = TxEntry]
      s2 == Flush(s1, q, Nil, tx)
      s3 == IF s2.thrown THEN s2
            ELSE Refeed(s2, s2.orphanTxByPrev[tx], 1)
      s4 == IF s3.thrown THEN s3 ELSE Emit(s3, "txNotify", tx)
  IN  IF s4.thrown \/ ~liveAccounting THEN s4
      ELSE IndexAccounts(s4, tx, AffectedAccounts(tx))

\* success path that emits txNotify once per waiter
VerifySucceeded_NotifyPerWaiter(s, tx, q) ==
  LET s1 == [s EXCEPT !.txIndex[tx] = TxEntry]
      s2 == Flush(s1, q, Nil, tx)
      s3 == IF s2.thrown THEN s2
            ELSE [Refeed(s2, s2.orphanTxByPrev[tx], 1)
                    EXCEPT !.orphanTxByPrev[tx] = <<>>]
      s4 == IF s3.thrown THEN s3
            ELSE [s3 EXCEPT !.events =
                    @ \o [i \in 1..Len(q) |-> [type |-> "txNotify", tx |-> tx]]]
  IN  IF s4.thrown \/ ~liveAccounting THEN s4
      ELSE IndexAccounts(s4, tx, AffectedAccounts(tx))

(***************************************************************************)
(* The callback add() hands to tx.verify: the success path.  An exception  *)
(* raised by a queued callback leaves the handler.                         *)
(***************************************************************************)
VerifySucceeded(s, tx, q) ==
  LET s1 == [s EXCEPT !.txIndex[tx] = TxEntry]
      s2 == Flush(s1, q, Nil, tx)
      s3 == IF s2.thrown THEN s2
            ELSE [Refeed(s2, s2.orphanTxByPrev[tx], 1)
                    EXCEPT !.orphanTxByPrev[tx] = <<>>]
      s4 == IF s3.thrown THEN s3 ELSE Emit(s3, "txNotify", tx)
  IN  IF s4.thrown \/ ~liveAccounting THEN s4
      ELSE IndexAccounts(s4, tx, AffectedAccounts(tx))

(***************************************************************************)
(* The callback add() hands to tx.verify.                                  *)
(***************************************************************************)
VerifyCallback(s, tx, err, missingTxHash) ==
  LET callbackQueue == s.txIndex[tx] IN
  IF callbackQueue.kind # "queue"
    THEN [s EXCEPT !.misfired = TRUE]
  ELSE IF err # Nil
    THEN VerifyFailed(s, tx, err, missingTxHash, callbackQueue.q)
  ELSE VerifySucceeded(s, tx, callbackQueue.q)

(***************************************************************************)
(* TransactionStore.prototype.get                                          *)
(***************************************************************************)
GetOp(s, hash, callback) ==
  IF s.txIndex[hash].kind = "queue"
    THEN [s EXCEPT !.txIndex[hash].q = IF IsFunction(callback)
                                         THEN Append(@, callback) ELSE @,
                   !.ret = "null"]
  ELSE LET v == IF s.txIndex[hash].kind = "tx" THEN hash ELSE Undefined
       IN  [(IF IsFunction(callback) THEN Invoke(s, callback, Nil, v) ELSE s)
              EXCEPT !.ret = v]

\* hashes.forEach(function (hash) { self.get(hash, function (err, tx) ...) })
RECURSIVE FindLoop(_, _, _, _)
FindLoop(s, hashes, id, i) ==
  IF i > Len(hashes) THEN s
  ELSE FindLoop(GetOp(s, hashes[i], FindClosure(id)), hashes, id, i + 1)

(***************************************************************************)
(* TransactionStore.prototype.find: the call is the next entry of finds.   *)
(***************************************************************************)
FindOp(s, hashes) ==
  LET id == Len(s.finds) + 1
      f == [hashes |-> hashes, callbacks |-> Len(hashes), disable |-> FALSE,
            result |-> <<>>,
            calls |-> IF Len(hashes) = 0
                        THEN <<[err |-> Nil, result |-> <<>>]>> ELSE <<>>]
  IN  [FindLoop([s EXCEPT !.finds = Append(@, f)], hashes, id, 1)
         EXCEPT !.ret = Undefined]

\* isKnown that only answers for verified transactions
isKnown_AcceptedOnly(s, hash) == s.txIndex[hash].kind = "tx"

(***************************************************************************)
(* TransactionStore.prototype.isKnown                                      *)
(***************************************************************************)
isKnown(s, hash) == s.txIndex[hash].kind # "undefined"

(***************************************************************************)
(* TransactionStore.prototype.handleTxAdd: the loop over the inputs of the *)
(* confirmed transaction has an empty body.                                *)
(***************************************************************************)
HandleTxAddOp(s, tx) ==
  LET s1 == RemoveOp(s, tx)
  IN  IF ~IsCoinBase(tx) THEN s1 ELSE s1

(***************************************************************************)
(* Node: the state machine.                                                *)
(***************************************************************************)
Null == "null"

\* the components handleStateChange enables on entry to netConnect
Components == {"peerManager", "txSender", "bcManager", "rpcServer"}

\* the Node as one value
Node ==
  [state |-> state, running |-> running, initCalls |-> initCalls,
   enabled |-> enabled, stateChanges |-> stateChanges]

\* the states in which handleStateChange considers the node running
RunningStates == {"netConnect", "blockDownload", "default"}

\* handleStateChange that derives running from the state that was left
HandleStateChange_RunningFromOld(n, e) ==
  LET n1 == [n EXCEPT !.running = e.oldState \in RunningStates]
  IN  CASE e.newState = "init" -> [n1 EXCEPT !.initCalls = @ + 1]
        [] e.newState = "netConnect" ->
             [n1 EXCEPT !.enabled = [c \in Components |-> @[c] + 1]]
        [] OTHER -> n1

\* handleStateChange that enables the components on entry to init as well
HandleStateChange_EnableOnInit(n, e) ==
  LET n1 == [n EXCEPT !.running = e.newState \in RunningStates]
  IN  CASE e.newState = "init" ->
             [n1 EXCEPT !.initCalls = @ + 1,
                        !.enabled = [c \in Components |-> @[c] + 1]]
        [] e.newState = "netConnect" ->
             [n1 EXCEPT !.enabled = [c \in Components |-> @[c] + 1]]
        [] OTHER -> n1

\* Node.prototype.handleStateChange
HandleStateChange(n, e) ==
  LET n1 == [n EXCEPT !.running = e.newState \in RunningStates]
  IN  CASE e.newState = "init" -> [n1 EXCEPT !.initCalls = @ + 1]
        [] e.newState = "netConnect" ->
             [n1 EXCEPT !.enabled = [c \in Components |-> @[c] + 1]]
        [] OTHER -> n1

\* setState without the guard on init
SetState_NoGuard(n, newState) ==
  LET e == [oldState |-> n.state, newState |-> newState]
  IN  HandleStateChange([n EXCEPT !.state = newState,
                                  !.stateChanges = Append(@, e)], e)

\* Node.prototype.setState; the stateChange listener runs inside emit
SetState(n, newState) ==
  LET oldState == n.state
      e == [oldState |-> oldState, newState |-> newState]
  IN  IF newState = "init" /\ oldState # Null THEN n
      ELSE HandleStateChange([n EXCEPT !.state = newState,
                                       !.stateChanges = Append(@, e)], e)

\* initComplete listener that does not look at the state
OnInitComplete_NoGuard(n) == SetState(n, "netConnect")

\* the initComplete listener of setupStateTransitions
OnInitComplete(n) == IF n.state = "init" THEN SetState(n, "netConnect") ELSE n

\* the netConnected listener of setupStateTransitions
OnNetConnected(n) == IF n.state = "netConnect" THEN SetState(n, "blockDownload") ELSE n

(***************************************************************************)
(* Node: inbound inv and getblocks messages.                               *)
(***************************************************************************)
\* the entries an inv message is made of: transactions (type 1), blocks
\* (type 2) and an entry of a type the Node does not recognize
InvEntries ==
  {[type |-> 1, hash |-> "P"], [type |-> 1, hash |-> "C"],
   [type |-> 2, hash |-> "B1"], [type |-> 2, hash |-> "B2"],
   [type |-> 3, hash |-> "F"]}

InvMessages == UNION {[1..n -> InvEntries] : n \in 1..MaxInv}

\* the connections of the peer manager
Conns == {"c1", "c2"}

\* the connection the inv message arrives on
Origin == "c1"

\* the locals of one handleInv call
InvCall ==
  [toCheck |-> toCheck, unknownInvs |-> unknownInvs, lookups |-> lookups,
   sent |-> sent]

\* if (toCheck === 0 && unknownInvs.length) e.conn.sendGetData(unknownInvs)
SendGetDataWhenChecked(h) ==
  IF h.toCheck = 0 /\ h.unknownInvs # <<>>
    THEN [h EXCEPT !.sent = Append(@, [conn |-> Origin, msg |-> "getdata",
                                       data |-> h.unknownInvs])]
    ELSE h

\* the for loop of handleInv; storage.knowsBlock answers later
RECURSIVE InvLoop(_, _, _, _)
InvLoop(h, s, invs, i) ==
  IF i > Len(invs) THEN h
  ELSE LET h1 == CASE invs[i].type = 1 ->
                        [h EXCEPT !.toCheck = @ - 1,
                                  !.unknownInvs = IF ~isKnown(s, invs[i].hash)
                                                    THEN Append(@, invs[i]) ELSE @]
                    [] invs[i].type = 2 -> [h EXCEPT !.lookups = @ \cup {i}]
                    [] OTHER -> h
       IN  InvLoop(h1, s, invs, i + 1)

\* Node.prototype.handleInv
HandleInvOp(h, s, invs) ==
  SendGetDataWhenChecked(
    InvLoop([h EXCEPT !.toCheck = Len(invs), !.unknownInvs = <<>>], s, invs, 1))

\* the callback handleInv hands to storage.knowsBlock for entry i
KnowsBlockCallback(h, invs, i, err, known) ==
  LET h1 == [h EXCEPT !.toCheck = @ - 1, !.lookups = @ \ {i}]
      h2 == IF err THEN h1
            ELSE IF ~known THEN [h1 EXCEPT !.unknownInvs = Append(@, invs[i])]
            ELSE h1
  IN  SendGetDataWhenChecked(h2)

\* the callback handleGetblocks hands to getBlockByLocator: its body is empty
LocatorCallback(out, conn) == out

(***************************************************************************)
(* Node: inbound getdata messages.                                         *)
(***************************************************************************)
\* the entries of a getdata message
GetdataEntries ==
  {[type |-> 1, hash |-> "P"], [type |-> 1, hash |-> "C"],
   [type |-> 2, hash |-> "B1"]}

GetdataMessages == UNION {[1..n -> GetdataEntries] : n \in 1..2}

\* get(hash) is called without a callback
NoCallback == [type |-> "undefined", id |-> 0]

\* getdata handler that answers for every hash the store knows
GetdataEntry_ReplyWhenKnown(s, conn, inv) ==
  IF inv.type = 1
    THEN IF isKnown(s, inv.hash)
           THEN [s EXCEPT !.sent = Append(@, [conn |-> conn, msg |-> "tx",
                                              data |-> <<inv.hash>>])]
           ELSE s
    ELSE s

\* the body of the forEach of handleGetdata
GetdataEntry(s, conn, inv) ==
  IF inv.type = 1
    THEN LET g == GetOp(s, inv.hash, NoCallback)
         IN  IF g.ret \notin {"null", Undefined}
               THEN [g EXCEPT !.sent = Append(@, [conn |-> conn, msg |-> "tx",
                                                  data |-> <<g.ret>>])]
               ELSE g
    ELSE s

\* Node.prototype.handleGetdata
RECURSIVE HandleGetdataOp(_, _, _, _)
HandleGetdataOp(s, conn, invs, i) ==
  IF i > Len(invs) THEN s
  ELSE HandleGetdataOp(GetdataEntry(s, conn, invs[i]), conn, invs, i + 1)

(***************************************************************************)
(* Block: the self checks of lib/schema/block.js.  A hash is a buffer of   *)
(* two bytes; a check returns "ok" or the value it throws.                 *)
(***************************************************************************)
Bytes == 0..MaxByte

Base == MaxByte + 1

Buffers == [1..2 -> Bytes]

TypeError == "TypeError"

\* a block whose hash field is not set
NoHash == <<>>

\* the txs argument: an Array of transactions, or undefined
Array(items) == [defined |-> TRUE, items |-> items]

NoTxs == [defined |-> FALSE, items |-> <<>>]

\* BlockRules.maxTimeOffset
MaxTimeOffset == 2 * 60 * 60

\* new Date().getTime() / 1000
CurrentTime == 1000

\* the compact targets: target = mant * Base^(exp - 1)
Bits == [exp : 1..2, mant : Bytes]

\* Util.decodeDiffBits: the target as a big-endian buffer
DecodeDiffBits(bits) ==
  IF bits.exp = 1 THEN <<0, bits.mant>> ELSE <<bits.mant, 0>>

\* Util.twoSha256 of the header: a digest of the header fields
TwoSha256(header) ==
  LET n == header.nonce + header.timestamp + header.bits.mant + header.bits.exp
  IN  <<n % Base, (n \div Base) % Base>>

\* buffertools: buffer.reverse()
Reverse(buf) == [i \in 1..Len(buf) |-> buf[Len(buf) + 1 - i]]

\* buffertools: a.compare(b), byte by byte from the first
Compare(a, b) ==
  IF a = b THEN 0
  ELSE LET d == CHOOSE i \in 1..Len(a) :
                  /\ a[i] # b[i]
                  /\ \A j \in 1..(i - 1) : a[j] = b[j]
       IN  IF a[d] < b[d] THEN -1 ELSE 1

\* Block getHeader
GetHeader(b) ==
  [merkle_root |-> b.merkle_root, timestamp |-> b.timestamp,
   bits |-> b.bits, nonce |-> b.nonce]

\* Block calcHash
CalcHash(b) == TwoSha256(GetHeader(b))

\* Block checkHash
CheckHash(b) ==
  IF b.hash = NoHash THEN FALSE ELSE Compare(CalcHash(b), b.hash) = 0

\* Block getHash
GetHash(b) ==
  IF b.hash = NoHash
    THEN [block |-> [b EXCEPT !.hash = CalcHash(b)], result |-> CalcHash(b)]
    ELSE [block |-> b, result |-> b.hash]

\* Block checkProofOfWork: the hash is reversed in place before the test
CheckProofOfWork(b) ==
  IF b.hash = NoHash THEN [block |-> b, result |-> TypeError]
  ELSE LET target == DecodeDiffBits(b.bits)
           b1 == [b EXCEPT !.hash = Reverse(@)]
       IN  IF Compare(b1.hash, target) > 0
             THEN [block |-> b1, result |-> "Difficulty target not met"]
             ELSE [block |-> [b1 EXCEPT !.hash = Reverse(@)], result |-> "ok"]

\* Block checkTimestamp
CheckTimestamp(b) ==
  IF b.timestamp > CurrentTime + MaxTimeOffset
    THEN "Timestamp too far into the future"
    ELSE "ok"

\* Block checkTransactions
CheckTransactions(txs) ==
  IF ~txs.defined THEN "No transactions"
  ELSE IF Len(txs.items) <= 0 THEN "No transactions"
  ELSE IF ~IsCoinBase(txs.items[1]) THEN "First tx must be coinbase"
  ELSE IF \E i \in 2..Len(txs.items) : IsCoinBase(txs.items[i])
    THEN LET i == CHOOSE k \in 2..Len(txs.items) :
                    /\ IsCoinBase(txs.items[k])
                    /\ \A m \in 2..(k - 1) : ~IsCoinBase(txs.items[m])
         IN  "Tx index " \o ToString(i - 1) \o " must not be coinbase"
  ELSE "ok"

\* Block calcMerkleRoot: the hash of a transaction is its name; with two or
\* more transactions the first tree.add raises TypeError (Array has no add)
CalcMerkleRoot(txs) ==
  IF ~txs.defined THEN TypeError
  ELSE IF Len(txs.items) = 0 THEN NullHash
  ELSE IF Len(txs.items) > 1 THEN TypeError
  ELSE txs.items[Len(txs.items)]

\* Block checkMerkleRoot: calcMerkleRoot is called without its argument
CheckMerkleRoot(b, txs) ==
  IF b.merkle_root = Undefined THEN "No merkle root"
  ELSE LET root == CalcMerkleRoot(NoTxs)
       IN  IF root = TypeError THEN TypeError
           ELSE IF root = b.merkle_root THEN "Merkle root incorrect"
           ELSE "ok"

\* Block checkBlock
CheckBlock(b, txs) ==
  LET pow == CheckProofOfWork(b)
      b1 == pow.block
  IN  IF pow.result # "ok" THEN pow
      ELSE IF CheckTimestamp(b1) # "ok"
        THEN [block |-> b1, result |-> CheckTimestamp(b1)]
      ELSE IF ~txs.defined THEN [block |-> b1, result |-> "ok"]
      ELSE IF CheckTransactions(txs) # "ok"
        THEN [block |-> b1, result |-> CheckTransactions(txs)]
      ELSE [block |-> b1, result |-> CheckMerkleRoot(b1, txs)]

\* the transaction lists handed to the checks
TxLists ==
  {NoTxs} \cup {Array(items) : items \in {<<>>, <<"CB">>, <<"P">>, <<"CB", "P">>,
                                          <<"CB", "CB">>}}

(***************************************************************************)
(* State machine.                                                          *)
(***************************************************************************)
NoOp == [op |-> "none", h |-> Undefined, err |-> Nil, missing |-> Undefined,
         cb |-> 0, flushed |-> <<>>, ret |-> Undefined, thrown |-> FALSE]

Commit(s, l) ==
  /\ Len(s.events) <= MaxEvents
  /\ Len(s.sent) <= MaxSent
  /\ \A h \in Hashes : Len(s.txIndex[h].q) <= MaxQueue
  /\ txIndex' = s.txIndex
  /\ txIndexByAcc' = s.txIndexByAcc
  /\ orphanTxIndex' = s.orphanTxIndex
  /\ orphanTxByPrev' = s.orphanTxByPrev
  /\ inflight' = s.inflight
  /\ events' = s.events
  /\ cbCalls' = s.cbCalls
  /\ misfired' = s.misfired
  /\ finds' = s.finds
  /\ last' = [l EXCEPT !.ret = s.ret, !.thrown = s.thrown]
  /\ sent' = s.sent
  /\ txSender' = s.txSender
  /\ UNCHANGED <<liveAccounting, nodeVars, msgVars, blockVars>>

\* new TransactionStore(node)
InitPool ==
  /\ txIndex = [h \in Hashes |-> NoEntry]
  /\ txIndexByAcc = [a \in Accounts |-> <<>>]
  /\ orphanTxIndex = {}
  /\ orphanTxByPrev = [h \in Hashes |-> <<>>]
  /\ liveAccounting \in BOOLEAN
  /\ inflight = [h \in Hashes |-> 0]
  /\ events = <<>>
  /\ cbCalls = [i \in CbIds |-> <<>>]
  /\ nextCb = 1
  /\ misfired = FALSE
  /\ lateParents = {}
  /\ finds = <<>>
  /\ last = NoOp

\* new Node(cfg)
InitNode ==
  /\ state = Null
  /\ running = FALSE
  /\ initCalls = 0
  /\ enabled = [c \in Components |-> 0]
  /\ stateChanges = <<>>
  /\ invMsg = <<>>
  /\ toCheck = 0
  /\ unknownInvs = <<>>
  /\ lookups = {}
  /\ locators = <<>>
  /\ sent = <<>>
  /\ txSender = {}

\* no block is under validation
InitNoBlock ==
  /\ block = [hash |-> NoHash, nonce |-> 0, bits |-> [exp |-> 1, mant |-> 0],
              timestamp |-> 0, merkle_root |-> Undefined]
  /\ blockTxs = NoTxs
  /\ result = Undefined

Init == InitPool /\ InitNode /\ InitNoBlock

\* a caller (Node.handleTx, Node.sendTx) submits tx with a callback
Add(tx) ==
  /\ nextCb <= MaxCb
  /\ nextCb' = nextCb + 1
  /\ Commit(AddOp(Store, tx, Fn(nextCb)),
            [NoOp EXCEPT !.op = "add", !.h = tx, !.cb = nextCb])
  /\ lateParents' = IF inflight'[tx] > inflight[tx] /\ orphanTxByPrev[tx] # <<>>
                      THEN lateParents \cup {tx} ELSE lateParents

\* tx.verify calls back
VerifyDone(tx, err, missingTxHash) ==
  /\ inflight[tx] > 0
  /\ err = MissingSourceError => missingTxHash \in {o[1] : o \in Ins(tx)}
  /\ err # MissingSourceError => missingTxHash = Undefined
  /\ Commit(VerifyCallback([Store EXCEPT !.inflight[tx] = @ - 1],
                           tx, err, missingTxHash),
            [NoOp EXCEPT !.op = "verify", !.h = tx, !.err = err,
                         !.missing = missingTxHash,
                         !.flushed = txIndex[tx].q])
  /\ lateParents' = lateParents \ {tx}
  /\ UNCHANGED nextCb

\* get(hash, callback)
Get(hash) ==
  /\ nextCb <= MaxCb
  /\ nextCb' = nextCb + 1
  /\ Commit(GetOp(Store, hash, Fn(nextCb)),
            [NoOp EXCEPT !.op = "get", !.h = hash, !.cb = nextCb])
  /\ UNCHANGED lateParents

\* remove(hash)
Remove(hash) ==
  /\ Commit(RemoveOp(Store, hash), [NoOp EXCEPT !.op = "remove", !.h = hash])
  /\ UNCHANGED <<nextCb, lateParents>>

\* BlockChain emits txAdd for a confirmed transaction
HandleTxAdd(tx) ==
  /\ Commit(HandleTxAddOp(Store, tx), [NoOp EXCEPT !.op = "handleTxAdd", !.h = tx])
  /\ UNCHANGED <<nextCb, lateParents>>

Next ==
  \/ \E tx \in Submitted : Add(tx)
  \/ \E tx \in Submitted, err \in VerifyErrors \cup {Nil},
        m \in Hashes \cup {Undefined} : VerifyDone(tx, err, m)
  \/ \E h \in Queried : Get(h)
  \/ \E h \in Queried : Remove(h)
  \/ \E tx \in Confirmed : HandleTxAdd(tx)

Spec == Init /\ [][Next]_vars

(***************************************************************************)
(* The memory pool driven through the Node: sendTx and inbound getdata.    *)
(***************************************************************************)
\* Node.prototype.sendTx(tx, callback)
SendTx(tx) ==
  /\ nextCb <= MaxCb
  /\ nextCb' = nextCb + 1
  /\ Commit(AddOp(Store, tx, SendTxClosure(nextCb)),
            [NoOp EXCEPT !.op = "sendTx", !.h = tx, !.cb = nextCb])
  /\ lateParents' = IF inflight'[tx] > inflight[tx] /\ orphanTxByPrev[tx] # <<>>
                      THEN lateParents \cup {tx} ELSE lateParents

\* a connection emits getdata
HandleGetdata(conn, invs) ==
  /\ Commit([HandleGetdataOp(Store, conn, invs, 1) EXCEPT !.ret = Undefined],
            [NoOp EXCEPT !.op = "getdata", !.h = conn, !.flushed = invs])
  /\ UNCHANGED <<nextCb, lateParents>>

NextPool ==
  \/ \E tx \in Submitted : SendTx(tx)
  \/ \E tx \in Submitted, err \in VerifyErrors \cup {Nil},
        m \in Hashes \cup {Undefined} : VerifyDone(tx, err, m)
  \/ \E invs \in GetdataMessages : HandleGetdata(Origin, invs)

SpecPool == Init /\ [][NextPool]_vars

(***************************************************************************)
(* The memory pool queried with find while transactions are verified.      *)
(***************************************************************************)
\* the lists of hashes handed to find
FindLists == UNION {[1..n -> Queried] : n \in 0..MaxHashes}

\* find(hashes, callback)
Find(hashes) ==
  /\ Len(finds) < MaxFind
  /\ Commit(FindOp(Store, hashes), [NoOp EXCEPT !.op = "find", !.flushed = hashes])
  /\ UNCHANGED <<nextCb, lateParents>>

NextFind ==
  \/ \E tx \in Queried : Add(tx)
  \/ \E tx \in Queried, err \in VerifyErrors \cup {Nil},
        m \in Hashes \cup {Undefined} : VerifyDone(tx, err, m)
  \/ \E hashes \in FindLists : Find(hashes)

SpecFind == Init /\ [][NextFind]_vars

(***************************************************************************)
(* The Node: start(), the events of BlockChain and PeerManager.            *)
(***************************************************************************)
CommitNode(n, op) ==
  /\ state' = n.state
  /\ running' = n.running
  /\ initCalls' = n.initCalls
  /\ enabled' = n.enabled
  /\ stateChanges' = n.stateChanges
  /\ last' = [NoOp EXCEPT !.op = op]
  /\ UNCHANGED <<poolVars, msgVars, sent, txSender, blockVars>>

\* Node.prototype.start
Start == CommitNode(SetState(Node, "init"), "start")

\* BlockChain emits initComplete
InitComplete == CommitNode(OnInitComplete(Node), "initComplete")

\* PeerManager emits netConnected
NetConnected == CommitNode(OnNetConnected(Node), "netConnected")

CommitInv(h, l) ==
  /\ toCheck' = h.toCheck
  /\ unknownInvs' = h.unknownInvs
  /\ lookups' = h.lookups
  /\ sent' = h.sent
  /\ last' = l
  /\ UNCHANGED <<poolVars, nodeVars, locators, txSender, blockVars>>

\* a connection emits inv
HandleInv(invs) ==
  /\ invMsg = <<>>
  /\ invMsg' = invs
  /\ CommitInv(HandleInvOp(InvCall, Store, invs), [NoOp EXCEPT !.op = "inv"])

\* storage.knowsBlock calls back for entry i of the inv message
KnowsBlockDone(i, err, known) ==
  /\ i \in lookups
  /\ UNCHANGED invMsg
  /\ CommitInv(KnowsBlockCallback(InvCall, invMsg, i, err, known),
               [NoOp EXCEPT !.op = "knowsBlock", !.cb = i])

\* a connection emits getblocks: Node.prototype.handleGetblocks
HandleGetblocks(conn) ==
  /\ Len(locators) < MaxLocators
  /\ locators' = Append(locators, conn)
  /\ last' = [NoOp EXCEPT !.op = "getblocks", !.h = conn]
  /\ UNCHANGED <<poolVars, nodeVars, invMsg, toCheck, unknownInvs, lookups, sent, txSender, blockVars>>

\* blockChain.getBlockByLocator calls back
LocatorDone ==
  /\ locators # <<>>
  /\ locators' = Tail(locators)
  /\ sent' = LocatorCallback(sent, Head(locators))
  /\ last' = [NoOp EXCEPT !.op = "locator", !.h = Head(locators)]
  /\ UNCHANGED <<poolVars, nodeVars, invMsg, toCheck, unknownInvs, lookups, txSender, blockVars>>

NextNode ==
  \/ Start
  \/ InitComplete
  \/ NetConnected
  \/ \E conn \in Conns : HandleGetblocks(conn)
  \/ LocatorDone

SpecNode == Init /\ [][NextNode]_vars

\* one inv message, received when P is unknown, being verified or accepted
NextInv ==
  \/ (invMsg = <<>> /\ Add("P"))
  \/ (invMsg = <<>> /\ VerifyDone("P", Nil, Undefined))
  \/ \E invs \in InvMessages : HandleInv(invs)
  \/ \E i \in 1..MaxInv, err \in BOOLEAN, known \in BOOLEAN : KnowsBlockDone(i, err, known)

SpecInv == Init /\ [][NextInv]_vars

(***************************************************************************)
(* Block validation: a block built from a message or loaded from storage,  *)
(* and the checks applied to it.                                           *)
(***************************************************************************)
\* the blocks handed to the checks
BlockUnderValidation ==
  /\ block \in [hash : Buffers \cup {NoHash}, nonce : 0..(Base * Base - 1), bits : Bits,
                timestamp : {CurrentTime, CurrentTime + MaxTimeOffset,
                             CurrentTime + MaxTimeOffset + 1},
                merkle_root : {Undefined, "CB", "P"}]
  /\ blockTxs = NoTxs
  /\ result = Undefined

InitBlock == InitPool /\ InitNode /\ BlockUnderValidation

CommitBlock(r, txs, op) ==
  /\ block' = r.block
  /\ result' = r.result
  /\ blockTxs' = txs
  /\ last' = [NoOp EXCEPT !.op = op]
  /\ UNCHANGED <<poolVars, nodeVars, msgVars, sent, txSender>>

\* block.checkBlock(txs)
DoCheckBlock(txs) == CommitBlock(CheckBlock(block, txs), txs, "checkBlock")

\* block.checkMerkleRoot(txs)
DoCheckMerkleRoot(txs) ==
  CommitBlock([block |-> block, result |-> CheckMerkleRoot(block, txs)],
              txs, "checkMerkleRoot")

\* block.checkProofOfWork()
DoCheckProofOfWork ==
  CommitBlock(CheckProofOfWork(block), NoTxs, "checkProofOfWork")

\* block.checkHash()
DoCheckHash ==
  CommitBlock([block |-> block, result |-> CheckHash(block)], NoTxs, "checkHash")

\* block.getHash()
DoGetHash == CommitBlock(GetHash(block), NoTxs, "getHash")

NextBlock ==
  \/ \E txs \in TxLists : DoCheckBlock(txs)
  \/ \E txs \in TxLists : DoCheckMerkleRoot(txs)
  \/ DoCheckProofOfWork
  \/ DoCheckHash
  \/ DoGetHash

SpecBlock == InitBlock /\ [][NextBlock]_vars

(***************************************************************************)
(* Vocabulary of the properties.                                           *)
(***************************************************************************)
\* number of events of one type emitted for tx
Count(evs, type, tx) ==
  Cardinality({i \in DOMAIN evs : evs[i] = [type |-> type, tx |-> tx]})

\* the three states of a mempool entry
Verifying(h) == inflight[h] > 0

Accepted(h) == txIndex[h].kind = "tx"

Orphan(h) == h \in orphanTxIndex

\* the step just taken ran this handler
Ran(op) == last'.op = op

\* every caller callback of q is invoked once more, with (err, tx)
Flushed(q, err, tx) ==
  \A i \in 1..Len(q) :
    q[i].type = "fn" =>
      cbCalls'[q[i].id] = Append(cbCalls[q[i].id], [err |-> err, tx |-> tx])

HasRemoveClosure(q) == \E i \in 1..Len(q) : q[i] = RemoveClosure

StoreUnchanged ==
  UNCHANGED <<txIndex, txIndexByAcc, orphanTxIndex, orphanTxByPrev, inflight, events>>

(***************************************************************************)
(* C1.  At most one verification is in flight per transaction hash: an add *)
(* for a hash whose entry is being verified starts no new verification,    *)
(* appends its callback to the existing waiter queue and returns false.    *)
(***************************************************************************)
C1_AddJoinsVerification ==
  (Ran("add") /\ Verifying(last'.h)) =>
     /\ inflight' = inflight
     /\ txIndex' = [txIndex EXCEPT ![last'.h].q = Append(@, Fn(last'.cb))]
     /\ last'.ret = FALSE

C1_OneVerificationPerHash ==
  /\ [](\A h \in Hashes : inflight[h] <= 1)
  /\ [][C1_AddJoinsVerification]_vars

C1_Witness ==
  /\ last.op = "add" /\ last.ret = FALSE
  /\ inflight[last.h] = 1
  /\ Len(txIndex[last.h].q) = 2
  /\ txIndex[last.h].q[2] = Fn(last.cb)

(***************************************************************************)
(* C2.  When the verification started by add succeeds the entry becomes    *)
(* the accepted transaction (it is still there at the end of the handler   *)
(* unless one of the queued callbacks is the removal that remove()         *)
(* scheduled), every callback queued while it was verifying is invoked     *)
(* with (nil, tx), and exactly one txNotify is emitted for the acceptance; *)
(* no other handler emits txNotify, however many add calls it serves.      *)
(***************************************************************************)
C2_Acceptance ==
  /\ (Ran("verify") /\ last'.err = Nil) =>
       /\ ~HasRemoveClosure(txIndex[last'.h].q) => txIndex'[last'.h] = TxEntry
       /\ Len(txIndex[last'.h].q) >= 1
       /\ Flushed(txIndex[last'.h].q, Nil, last'.h)
       /\ Count(events', "txNotify", last'.h) = Count(events, "txNotify", last'.h) + 1
  /\ ~(Ran("verify") /\ last'.err = Nil) =>
       \A h \in Hashes : Count(events', "txNotify", h) = Count(events, "txNotify", h)

C2_SuccessResolvesAllWaiters == [][C2_Acceptance]_vars

C2_Witness ==
  /\ last.op = "verify" /\ last.err = Nil
  /\ Len(last.flushed) = 2
  /\ \A i \in 1..2 : /\ last.flushed[i].type = "fn"
                     /\ cbCalls[last.flushed[i].id] = <<[err |-> Nil, tx |-> last.h]>>
  /\ Accepted(last.h)
  /\ Count(events, "txNotify", last.h) = 1

(***************************************************************************)
(* C3.  Orphan promotion: when add(C) ended in a missing-source failure    *)
(* naming P, and P was added after that and is accepted, C is fed through  *)
(* add again and a new verification of C is started.                       *)
(***************************************************************************)
C3_Promotion ==
  (Ran("verify") /\ last'.err = Nil /\ last'.h \in lateParents) =>
     \A i \in 1..Len(orphanTxByPrev[last'.h]) :
        inflight'[orphanTxByPrev[last'.h][i]] = 1

C3_OrphanPromoted == [][C3_Promotion]_vars

(***************************************************************************)
(* C4.  When verification fails with a missing-source error the            *)
(* transaction is recorded as an orphan, it is appended to the orphan      *)
(* index under the missing previous-transaction hash, every queued         *)
(* callback is invoked in that same step with the missing-source error and *)
(* the tx, and no event is emitted.                                        *)
(***************************************************************************)
C4_Orphaned ==
  (Ran("verify") /\ last'.err = MissingSourceError) =>
     /\ last'.h \in orphanTxIndex'
     /\ inflight'[last'.h] = 0
     /\ orphanTxByPrev' =
          [orphanTxByPrev EXCEPT ![last'.missing] = Append(@, last'.h)]
     /\ Len(txIndex[last'.h].q) >= 1
     /\ Flushed(txIndex[last'.h].q, MissingSourceError, last'.h)
     /\ events' = events

C4_MissingSourceMakesOrphan == [][C4_Orphaned]_vars

C4_Witness ==
  /\ last.op = "verify" /\ last.err = MissingSourceError
  /\ last.h = "C" /\ last.missing = "P"
  /\ orphanTxByPrev["P"] = <<"C">>
  /\ Orphan("C")
  /\ \E i \in 1..Len(last.flushed) :
        /\ last.flushed[i].type = "fn"
        /\ cbCalls[last.flushed[i].id] = <<[err |-> MissingSourceError, tx |-> "C"]>>

(***************************************************************************)
(* C5.  When verification fails with another error the entry is removed    *)
(* (isKnown is false afterwards and a later add starts a fresh             *)
(* verification), every queued callback is invoked with that error, and    *)
(* neither txNotify nor txCancel is emitted.                               *)
(***************************************************************************)
C5_Rejected ==
  /\ (Ran("verify") /\ last'.err = "VerifyError") =>
       /\ txIndex'[last'.h] = NoEntry
       /\ Len(txIndex[last'.h].q) >= 1
       /\ Flushed(txIndex[last'.h].q, "VerifyError", last'.h)
       /\ events' = events
  /\ (Ran("add") /\ txIndex[last'.h] = NoEntry
        /\ ~IsCoinBase(last'.h) /\ IsStandard(last'.h)) =>
       /\ inflight'[last'.h] = inflight[last'.h] + 1
       /\ txIndex'[last'.h] = QueueEntry(<<Fn(last'.cb)>>)
       /\ last'.ret = TRUE

C5_FailureRemovesEntry == [][C5_Rejected]_vars

\* a transaction that failed verification is being verified again
C5_Witness ==
  /\ last.op = "add" /\ last.ret = TRUE
  /\ inflight[last.h] = 1
  /\ \E c \in CbIds : cbCalls[c] = <<[err |-> "VerifyError", tx |-> last.h]>>

(***************************************************************************)
(* C6.  add of a coinbase or non-standard transaction invokes the callback *)
(* with the error in the same step, starts no verification and leaves the  *)
(* mempool map, the orphan indices and the address index unchanged.        *)
(***************************************************************************)
C6_Rejection ==
  (Ran("add") /\ (IsCoinBase(last'.h) \/ ~IsStandard(last'.h))) =>
     /\ txIndex[last'.h] = NoEntry
     /\ cbCalls' = [cbCalls EXCEPT ![last'.cb] =
                      <<[err |-> IF IsCoinBase(last'.h) THEN CoinbaseError
                                 ELSE NonStandardError,
                         tx |-> Undefined]>>]
     /\ StoreUnchanged
     /\ txIndex'[last'.h].kind = "undefined"

C6_SynchronousRejection == [][C6_Rejection]_vars

C6_Witness ==
  /\ last.op = "add" /\ last.h = "NS"
  /\ cbCalls[last.cb] = <<[err |-> NonStandardError, tx |-> Undefined]>>
  /\ \E c \in CbIds : cbCalls[c] = <<[err |-> CoinbaseError, tx |-> Undefined]>>

(***************************************************************************)
(* C7.  remove(h): an accepted entry is dropped with exactly one txCancel; *)
(* for an entry that is being verified nothing is removed now, a later     *)
(* success drops the entry with exactly one txCancel however often remove  *)
(* was called, a later failure emits no txCancel; for an unknown hash      *)
(* remove changes nothing and emits nothing.                               *)
(***************************************************************************)
C7_Remove ==
  /\ (Ran("remove") /\ Accepted(last'.h)) =>
       /\ txIndex' = [txIndex EXCEPT ![last'.h] = NoEntry]
       /\ Count(events', "txCancel", last'.h) = Count(events, "txCancel", last'.h) + 1
  /\ (Ran("remove") /\ Verifying(last'.h)) =>
       /\ txIndex'[last'.h].kind = "queue"
       /\ inflight' = inflight
       /\ events' = events
  /\ (Ran("verify") /\ last'.err = Nil /\ HasRemoveClosure(txIndex[last'.h].q)) =>
       /\ txIndex'[last'.h] = NoEntry
       /\ Count(events', "txCancel", last'.h) = Count(events, "txCancel", last'.h) + 1
  /\ (Ran("verify") /\ last'.err # Nil) =>
       \A h \in Hashes : Count(events', "txCancel", h) = Count(events, "txCancel", h)
  /\ (Ran("remove") /\ txIndex[last'.h] = NoEntry) =>
       /\ StoreUnchanged
       /\ cbCalls' = cbCalls

C7_RemoveContract == [][C7_Remove]_vars

\* remove was called twice while verifying and the verification succeeded
C7_Witness ==
  /\ last.op = "verify" /\ last.err = Nil
  /\ Cardinality({i \in 1..Len(last.flushed) : last.flushed[i] = RemoveClosure}) = 2
  /\ txIndex[last.h] = NoEntry
  /\ Count(events, "txCancel", last.h) = 1

(***************************************************************************)
(* C8.  Confirmation eviction: after handleTxAdd for a transaction that    *)
(* has a mempool entry and no verification pending, isKnown is false.      *)
(***************************************************************************)
C8_Eviction ==
  (Ran("handleTxAdd") /\ txIndex[last'.h] # NoEntry /\ ~Verifying(last'.h)) =>
     txIndex'[last'.h].kind = "undefined"

C8_ConfirmationEvicts == [][C8_Eviction]_vars

(***************************************************************************)
(* C9.  Conflict eviction: handleTxAdd for a confirmed non-coinbase        *)
(* transaction evicts every accepted mempool transaction that spends an    *)
(* outpoint also spent by one of its inputs, with a txCancel for each.     *)
(***************************************************************************)
C9_Conflicts ==
  (Ran("handleTxAdd") /\ ~IsCoinBase(last'.h)) =>
     \A m \in Hashes \ {"G", last'.h} :
        (Accepted(m) /\ Ins(m) \cap Ins(last'.h) # {}) =>
           /\ txIndex'[m] = NoEntry
           /\ Count(events', "txCancel", m) = Count(events, "txCancel", m) + 1

C9_ConflictEvicts == [][C9_Conflicts]_vars

(***************************************************************************)
(* C10.  isKnown(h) is true exactly when h is verifying, accepted or       *)
(* orphan; it is false for a hash never added, after a synchronous         *)
(* rejection, after a verification failure other than missing source, and  *)
(* after the entry was removed.                                            *)
(***************************************************************************)
C10_Steps ==
  /\ \A h \in Hashes :
       (~isKnown(Store, h) /\ txIndex'[h] # NoEntry) => (Ran("add") /\ last'.h = h)
  /\ (Ran("add") /\ (IsCoinBase(last'.h) \/ ~IsStandard(last'.h))) =>
       txIndex'[last'.h] = NoEntry
  /\ (Ran("verify") /\ last'.err = "VerifyError") => txIndex'[last'.h] = NoEntry
  /\ (Ran("remove") /\ Accepted(last'.h)) => txIndex'[last'.h] = NoEntry

C10_IsKnownExact ==
  /\ [](\A h \in Hashes :
          /\ isKnown(Store, h) <=> (Verifying(h) \/ Accepted(h) \/ Orphan(h))
          /\ txIndex[h] = NoEntry => ~isKnown(Store, h))
  /\ [][C10_Steps]_vars

\* one hash of each kind: verifying, orphan, and removed after acceptance
C10_Witness ==
  /\ \E h \in Hashes : Verifying(h) /\ isKnown(Store, h)
  /\ \E h \in Hashes : Orphan(h) /\ ~Verifying(h) /\ isKnown(Store, h)

(***************************************************************************)
(* C11.  Under any order of start(), initComplete and netConnected the     *)
(* Node state only moves along null -> init -> netConnect ->               *)
(* blockDownload: start moves null to init, initComplete moves init to     *)
(* netConnect, netConnected moves netConnect to blockDownload, and an      *)
(* event arriving in another state leaves the state unchanged.             *)
(***************************************************************************)
C11_Transitions ==
  /\ Ran("start") => state' = IF state = Null THEN "init" ELSE state
  /\ Ran("initComplete") => state' = IF state = "init" THEN "netConnect" ELSE state
  /\ Ran("netConnected") =>
       state' = IF state = "netConnect" THEN "blockDownload" ELSE state
  /\ state' # state =>
       <<state, state'>> \in {<<Null, "init">>, <<"init", "netConnect">>,
                              <<"netConnect", "blockDownload">>}

C11_StateOrder == [][C11_Transitions]_vars

C11_Witness ==
  /\ state = "blockDownload"
  /\ stateChanges = <<[oldState |-> Null, newState |-> "init"],
                      [oldState |-> "init", newState |-> "netConnect"],
                      [oldState |-> "netConnect", newState |-> "blockDownload"]>>

(***************************************************************************)
(* C12.  Once the Node state is not null, start() leaves the state         *)
(* unchanged, emits no stateChange and does not call BlockChain.init       *)
(* again; BlockChain.init is called at most once in any run.               *)
(***************************************************************************)
C12_NoReentry ==
  (Ran("start") /\ state # Null) => UNCHANGED nodeVars

C12_InitOnce ==
  /\ [](initCalls <= 1)
  /\ [][C12_NoReentry]_vars

\* start() was called after the node had reached blockDownload
C12_Witness ==
  /\ last.op = "start"
  /\ state = "blockDownload"
  /\ initCalls = 1
  /\ Len(stateChanges) = 3

(***************************************************************************)
(* C13.  Node.running is true exactly when the state is netConnect,        *)
(* blockDownload or active, and false when the state is null or init.      *)
(***************************************************************************)
C13_RunningStates ==
  /\ running <=> state \in {"netConnect", "blockDownload", "active"}
  /\ state \in {Null, "init"} => ~running

C13_Witness ==
  /\ state = "blockDownload" /\ running
  /\ last.op = "netConnected"

(***************************************************************************)
(* C14.  For one inbound inv message, once all block lookups have          *)
(* completed exactly one getdata has been sent on the originating          *)
(* connection if at least one referenced item is unknown, and none if no   *)
(* item is unknown.                                                        *)
(***************************************************************************)
GetDataSent == {i \in DOMAIN sent : sent[i].msg = "getdata" /\ sent[i].conn = Origin}

C14_OneGetData ==
  (invMsg # <<>> /\ lookups = {}) =>
     Cardinality(GetDataSent) = IF unknownInvs # <<>> THEN 1 ELSE 0

(***************************************************************************)
(* C15.  The list of unknown items sent in the getdata built by handleInv  *)
(* is a subsequence of the inv message's entries in their original order.  *)
(***************************************************************************)
InInvOrder(d, invs) ==
  \E f \in [1..Len(d) -> 1..Len(invs)] :
     /\ \A i \in 1..Len(d) : invs[f[i]] = d[i]
     /\ \A i, j \in 1..Len(d) : i < j => f[i] < f[j]

C15_GetDataInInvOrder ==
  \A i \in GetDataSent : InInvOrder(sent[i].data, invMsg)

(***************************************************************************)
(* C17.  On an inbound getblocks message, once getBlockByLocator has       *)
(* answered, the Node replies to the requesting connection with an inv.    *)
(***************************************************************************)
C17_Reply ==
  Ran("locator") =>
     /\ Len(sent') = Len(sent) + 1
     /\ sent'[Len(sent')].conn = last'.h
     /\ sent'[Len(sent')].msg = "inv"

C17_GetblocksAnswered == [][C17_Reply]_vars

(***************************************************************************)
(* C16.  sendTx(tx, cb) runs TransactionStore.add; when add resolves       *)
(* without error the hash is registered with the rebroadcaster and an inv  *)
(* is sent to every active connection; when add resolves with an error     *)
(* nothing is registered and nothing is sent; in both cases cb is invoked  *)
(* once, with the outcome.                                                 *)
(***************************************************************************)
\* the sendTx callbacks invoked by the step
Resolved == {c \in CbIds : cbCalls'[c] # cbCalls[c]}

\* what add reports in the step
Outcome ==
  IF Ran("verify") THEN last'.err
  ELSE IF Accepted(last'.h) THEN Nil
  ELSE IF IsCoinBase(last'.h) THEN CoinbaseError
  ELSE NonStandardError

\* one inv for tx on every active connection
Broadcast(tx) ==
  [i \in 1..Len(ActiveConnections) |->
     [conn |-> ActiveConnections[i], msg |-> "inv", data |-> <<tx>>]]

RECURSIVE Times(_, _)
Times(q, n) == IF n = 0 THEN <<>> ELSE q \o Times(q, n - 1)

C16_Resolution ==
  /\ (Ran("sendTx") \/ Ran("verify")) =>
       /\ \A c \in Resolved :
            cbCalls'[c] = <<[err |-> Outcome, tx |-> Undefined]>>
       /\ (Resolved # {} /\ Outcome = Nil) =>
            /\ txSender' = txSender \cup {last'.h}
            /\ sent' = sent \o Times(Broadcast(last'.h), Cardinality(Resolved))
       /\ (Resolved = {} \/ Outcome # Nil) =>
            /\ txSender' = txSender
            /\ sent' = sent
  /\ Ran("getdata") => (Resolved = {} /\ txSender' = txSender)

C16_SendTxOutcome == [][C16_Resolution]_vars

\* one sendTx was accepted and broadcast, another was rejected
C16_Witness ==
  /\ \E c \in CbIds : cbCalls[c] = <<[err |-> Nil, tx |-> Undefined]>>
  /\ \E c \in CbIds : cbCalls[c] = <<[err |-> "VerifyError", tx |-> Undefined]>>
  /\ txSender = {"P"}
  /\ sent = Broadcast("P")

(***************************************************************************)
(* C18.  On an inbound getdata a tx reply is sent for a type-1 entry       *)
(* exactly when the hash is accepted in the TransactionStore at that       *)
(* moment; for a hash that is verifying, orphan or unknown, and for every  *)
(* type-2 entry, no reply is sent and no callback is left in a waiter      *)
(* queue.                                                                  *)
(***************************************************************************)
C18_Replies ==
  Ran("getdata") =>
     LET hit(e) == e.type = 1 /\ Accepted(e.hash)
         found == SelectSeq(last'.flushed, hit)
     IN  /\ sent' = sent \o [i \in 1..Len(found) |->
                               [conn |-> last'.h, msg |-> "tx",
                                data |-> <<found[i].hash>>]]
         /\ txIndex' = txIndex
         /\ cbCalls' = cbCalls

C18_GetdataRepliesForAccepted == [][C18_Replies]_vars

\* a getdata for an accepted and an orphan transaction got one reply
C18_Witness ==
  /\ last.op = "getdata"
  /\ last.flushed = <<[type |-> 1, hash |-> "P"], [type |-> 1, hash |-> "C"]>>
  /\ Accepted("P") /\ Orphan("C")
  /\ sent = Broadcast("P") \o <<[conn |-> Origin, msg |-> "tx", data |-> <<"P">>]>>

(***************************************************************************)
(* Block self checks: what a check of the block under validation should    *)
(* find, stated on the block's fields.                                     *)
(***************************************************************************)
\* the hash, read as a number, does not exceed the target decoded from bits
MeetsTarget(b) ==
  /\ b.hash # NoHash
  /\ Compare(Reverse(b.hash), DecodeDiffBits(b.bits)) <= 0

\* the stored root is the root computed over the transactions' hashes
RootMatches(b, txs) ==
  /\ CalcMerkleRoot(txs) # TypeError
  /\ CalcMerkleRoot(txs) = b.merkle_root

\* the error of the first failing check in the order hash integrity,
\* proof of work, timestamp, transaction shape, merkle root
FirstFailure(b, txs) ==
  IF b.hash # CalcHash(b) THEN "Hash invalid"
  ELSE IF ~MeetsTarget(b) THEN "Difficulty target not met"
  ELSE IF CheckTimestamp(b) # "ok" THEN CheckTimestamp(b)
  ELSE IF CheckTransactions(txs) # "ok" THEN CheckTransactions(txs)
  ELSE IF ~RootMatches(b, txs) THEN "Merkle root incorrect"
  ELSE "ok"

C19_MerkleRoot ==
  /\ (Ran("checkMerkleRoot") /\ block.merkle_root # Undefined
        /\ CalcMerkleRoot(blockTxs') # TypeError) =>
       (result' = "ok" <=> RootMatches(block, blockTxs'))
  /\ (Ran("checkBlock") /\ MeetsTarget(block) /\ CheckTimestamp(block) = "ok"
        /\ CheckTransactions(blockTxs') = "ok" /\ RootMatches(block, blockTxs')) =>
       result' = "ok"

\* C19: the merkle-root check accepts exactly when the root computed over
\* the block's transaction hashes equals the stored root, and checkBlock
\* succeeds for a block with valid proof of work, timestamp, transaction
\* shape and matching root.
C19_MerkleRootCheck == [][C19_MerkleRoot]_vars

C20_Order ==
  (Ran("checkBlock") /\ block.hash # NoHash /\ blockTxs'.defined) =>
     result' = FirstFailure(block, blockTxs')

\* C20: checkBlock runs hash integrity, proof of work, timestamp,
\* transaction shape and merkle root in that order, and reports the first
\* failing check.
C20_FirstFailureReported == [][C20_Order]_vars

(***************************************************************************)
(* C21.  Each transaction hash is in at most one of the states verifying,  *)
(* accepted, orphan: no hash is recorded as orphan while its entry in the  *)
(* mempool map is still a waiter queue, and no hash is both orphan and     *)
(* accepted.                                                               *)
(***************************************************************************)
C21_OneStatePerHash ==
  \A h \in Hashes :
     /\ ~(Orphan(h) /\ txIndex[h].kind = "queue")
     /\ ~(Orphan(h) /\ Accepted(h))

(***************************************************************************)
(* C22.  On entry to netConnect the PeerManager, TransactionSender,        *)
(* BlockChainManager and JSON-RPC server are enabled; none of them is      *)
(* enabled before the state is netConnect; under any interleaving of       *)
(* start(), initComplete and netConnected each is enabled exactly once.    *)
(***************************************************************************)
C22_Enabling ==
  /\ (state' = "netConnect" /\ state # "netConnect") =>
        \A c \in Components : enabled'[c] = enabled[c] + 1
  /\ state' \in {Null, "init"} => \A c \in Components : enabled'[c] = 0
  /\ state' \in {"netConnect", "blockDownload"} =>
        \A c \in Components : enabled'[c] = 1

C22_EnabledOnceOnNetConnect == [][C22_Enabling]_vars

C22_Witness ==
  /\ state = "blockDownload"
  /\ last.op = "initComplete"
  /\ \A c \in Components : enabled[c] = 1
  /\ Len(stateChanges) = 3

(***************************************************************************)
(* C23.  Orphan index consistency: every transaction listed in the         *)
(* orphan-by-missing-prev index is also a key of the orphan-by-hash map,   *)
(* and after the orphans waiting on a hash have been re-fed they are no    *)
(* longer listed under that hash.                                          *)
(***************************************************************************)
C23_Consistency ==
  /\ \A h \in Hashes : \A i \in 1..Len(orphanTxByPrev'[h]) :
        orphanTxByPrev'[h][i] \in orphanTxIndex'
  /\ (Ran("verify") /\ last'.err = Nil /\ txIndex[last'.h].kind = "queue") =>
        orphanTxByPrev'[last'.h] = <<>>

C23_OrphanIndexConsistent == [][C23_Consistency]_vars

C23_Witness ==
  /\ last.op = "verify" /\ last.err = Nil /\ last.h = "P"
  /\ Accepted("P")
  /\ Orphan("C")
  /\ orphanTxByPrev["P"] = <<>>

(***************************************************************************)
(* C24.  Provided every started verification completes, every callback     *)
(* handed to add or get is invoked, exactly once: a callback that has not  *)
(* been invoked yet waits in the queue of a verification that is still in  *)
(* flight (never in a queue that has already been flushed), and no         *)
(* callback is invoked twice.                                              *)
(***************************************************************************)
Waits(c, h) ==
  /\ txIndex[h].kind = "queue"
  /\ \E i \in 1..Len(txIndex[h].q) : txIndex[h].q[i] = Fn(c)

C24_CallbackResolvedOnce ==
  \A c \in 1..(nextCb - 1) :
     /\ Len(cbCalls[c]) <= 1
     /\ cbCalls[c] = <<>> => \E h \in Hashes : Waits(c, h) /\ Verifying(h)

(***************************************************************************)
(* C25.  For every transaction hash the store's events alternate txNotify, *)
(* txCancel, txNotify, ... starting with txNotify: no txCancel is emitted  *)
(* for a transaction whose txNotify has not been emitted yet, and a        *)
(* transaction whose last event is txNotify is accepted.                   *)
(***************************************************************************)
EventsOf(h) ==
  SelectSeq(events, LAMBDA e : e.tx = h /\ e.type \in {"txNotify", "txCancel"})

C25_NotifyCancelAlternate ==
  \A h \in Hashes :
     LET evs == EventsOf(h)
     IN  /\ \A i \in 1..Len(evs) :
              evs[i].type = IF i % 2 = 1 THEN "txNotify" ELSE "txCancel"
         /\ (evs # <<>> /\ evs[Len(evs)].type = "txNotify") => Accepted(h)

(***************************************************************************)
(* C27.  An inv message that contains entries of a type other than 1 and 2 *)
(* still leads to a getdata for its unknown transaction and block entries  *)
(* once all block lookups have completed: the unrecognized entries are     *)
(* skipped without blocking the request.                                   *)
(***************************************************************************)
Unrecognized(invs) == {i \in DOMAIN invs : invs[i].type \notin {1, 2}}

C27_UnrecognizedSkipped ==
  (invMsg # <<>> /\ Unrecognized(invMsg) # {} /\ lookups = {}
     /\ unknownInvs # <<>>) =>
       /\ GetDataSent # {}
       /\ \A i \in GetDataSent :
             /\ sent[i].data = unknownInvs
             /\ Unrecognized(sent[i].data) = {}

(***************************************************************************)
(* C28.  checkProofOfWork accepts iff the block hash read as a number is   *)
(* less than or equal to the target decoded from bits, and it leaves the   *)
(* hash field unchanged in both outcomes, so that checkHash and getHash    *)
(* give the same result before and after the check.                        *)
(***************************************************************************)
\* the hash as an unsigned little-endian integer
HashValue(h) == h[1] + Base * h[2]

\* the target of the compact form: mant * Base^(exp - 1)
TargetValue(bits) == IF bits.exp = 1 THEN bits.mant ELSE bits.mant * Base

C28_ProofOfWork ==
  (Ran("checkProofOfWork") /\ block.hash # NoHash) =>
     /\ result' = "ok" <=> HashValue(block.hash) <= TargetValue(block.bits)
     /\ block'.hash = block.hash
     /\ CheckHash(block') = CheckHash(block)
     /\ GetHash(block').result = GetHash(block).result

C28_ProofOfWorkKeepsHash == [][C28_ProofOfWork]_vars

(***************************************************************************)
(* C26.  find(hashes, cb) invokes cb exactly once per call: at once when   *)
(* the list is empty or every hash is accepted or unknown, otherwise once  *)
(* the verifications it waits for have completed, and with either the      *)
(* error or the result, never both.                                        *)
(***************************************************************************)
\* every get of the call has answered, or one has answered with an error
Answered(f) == f.callbacks = 0 \/ f.disable

C26_FindCallsBackOnce ==
  \A i \in DOMAIN finds :
     /\ Len(finds[i].calls) <= 1
     /\ Answered(finds[i]) <=> Len(finds[i].calls) = 1

====
